---- MODULE Spec2Model ----
(***************************************************************************)
(* Model of insert_motos_from_json (src/fun_db.py): normalisation of a     *)
(* batch of scraped listings, schema migration of the data_moto table,     *)
(* existing-key lookup, bulk upsert and the returned summary.              *)
(* The db_* functions of src/db_sqlite3_api.py work on the same file; they  *)
(* are modelled further down, with a specification of their own.           *)
(*                                                                         *)
(* Python and SQLite values are tagged tuples, so that values of different *)
(* types can be compared the way Python compares them ("1" # 1):           *)
(*   <<"null">>          None / SQL NULL                                   *)
(*   <<"nan">>           float('nan'), the filler pandas uses for a key    *)
(*                       that a record lacks                               *)
(*   <<"str", c1, ...>>  a string, one element per character               *)
(*   <<"int", n>>        an integer                                        *)
(*   <<"real", t>>       a float, t in tenths (<<"real", 125>> is 12.5)    *)
(*   <<"time", t>>       a timestamp text                                  *)
(*   <<"list", seq>>     a list                                            *)
(*   <<"dict", seq>>     a dict, one <<key, value>> pair per entry         *)
(***************************************************************************)
EXTENDS Integers, Sequences, FiniteSets, TLC

VARIABLES
    db,            \* committed content of the database file
    txn,           \* the open connection's uncommitted view, or NoTxn
    conn,          \* "closed" | "open": the connection of the running call
    now,           \* the clock read by datetime('now')
    pc,            \* position of the caller in insert_motos_from_json
    items,         \* argument items_json of the running / last call
    marca,         \* argument marca
    modelo,        \* argument modelo
    rows,          \* local rows: the surviving, normalised records
    skipped,       \* local skipped
    existing_cols, \* local existing_cols
    existing_ids,  \* local existing_ids
    result,        \* outcome of the last call: a summary or a raised error
    pre,           \* history: db when the running / last call started
    first,         \* history: outcome of the previous call when the
                   \* running call repeats its arguments
    opened,        \* history: the running / last call opened a connection
    peer,          \* a second caller working on the same database file:
                   \* its position, arguments, locals and outcome, or NoPeer
    api            \* the running / last call of a db_* function of
                   \* db_sqlite3_api.py on the same database file: its
                   \* position, arguments, connection and outcome, or NoApi

vars == <<db, txn, conn, now, pc, items, marca, modelo, rows, skipped,
          existing_cols, existing_ids, result, pre, first, opened, peer,
          api>>

----------------------------------------------------------------------------
(* Values *)

Null == <<"null">>

NaN == <<"nan">>

StrV(s) == <<"str">> \o s

IntV(n) == <<"int", n>>

RealV(t) == <<"real", t>>

TimeV_Null(t) == <<"null">>

\* the text datetime('now') gives at clock value t
TimeV(t) == <<"time", t>>

Tag(v) == v[1]

Chars(v) == Tail(v)

DigitChars == <<"0", "1", "2", "3", "4", "5", "6", "7", "8", "9">>

IsDigit(c) == \E i \in 1..10 : DigitChars[i] = c

DigitVal(c) == (CHOOSE i \in 1..10 : DigitChars[i] = c) - 1

IsSpace(c) == c = " "

RECURSIVE lstrip(_)
lstrip(s) == IF s # <<>> /\ IsSpace(Head(s)) THEN lstrip(Tail(s)) ELSE s

RECURSIVE rstrip(_)
rstrip(s) ==
    IF s # <<>> /\ IsSpace(s[Len(s)]) THEN rstrip(SubSeq(s, 1, Len(s) - 1)) ELSE s

\* str.strip()
strip(s) == rstrip(lstrip(s))

RECURSIVE NatToChars(_)
NatToChars(n) ==
    IF n < 10 THEN <<DigitChars[n + 1]>>
    ELSE NatToChars(n \div 10) \o <<DigitChars[(n % 10) + 1]>>

RECURSIVE CharsToNat(_)
CharsToNat(s) ==
    IF s = <<>> THEN 0
    ELSE 10 * CharsToNat(SubSeq(s, 1, Len(s) - 1)) + DigitVal(s[Len(s)])

\* the text is an unsigned decimal integer literal
IsNatLiteral(s) == s # <<>> /\ \A i \in 1..Len(s) : IsDigit(s[i])

\* str(x) of a Python value
PyStr(v) ==
    CASE Tag(v) = "str"  -> Chars(v)
      [] Tag(v) = "int"  -> NatToChars(v[2])
      [] Tag(v) = "real" -> NatToChars(v[2] \div 10) \o <<".">> \o NatToChars(v[2] % 10)
      [] Tag(v) = "nan"  -> <<"n", "a", "n">>
      [] OTHER           -> <<"N", "o", "n", "e">>

----------------------------------------------------------------------------
(* Normalisation: fun_db.py lines 65-119 *)

expected_cols ==
    <<"id", "url", "title", "km", "price", "year", "imgUrl", "provinceId", "hp",
      "marca", "modelo">>

ColNames(cs) == {cs[i] : i \in 1..Len(cs)}

\* pd.isna(x) for a scalar
IsNa(v) == Tag(v) \in {"null", "nan"}

\* int(x): a string must be an integer literal (surrounding blanks allowed),
\* a float is truncated; "fail" stands for the exception int() raises
PyInt(v) ==
    CASE Tag(v) = "int"  -> IntV(v[2])
      [] Tag(v) = "real" -> IntV(v[2] \div 10)
      [] Tag(v) = "str"  ->
            IF IsNatLiteral(strip(Chars(v))) THEN IntV(CharsToNat(strip(Chars(v))))
            ELSE <<"fail">>
      [] OTHER           -> <<"fail">>

\* float(x): a string must be a decimal literal with a period
IsDecimalLiteral(s) ==
    \/ IsNatLiteral(s)
    \/ \E k \in 1..Len(s) :
          /\ s[k] = "."
          /\ IsNatLiteral(SubSeq(s, 1, k - 1))
          /\ IsNatLiteral(SubSeq(s, k + 1, Len(s)))

DecimalTenths(s) ==
    IF IsNatLiteral(s) THEN 10 * CharsToNat(s)
    ELSE LET k == CHOOSE k \in 1..Len(s) : s[k] = "."
         IN  10 * CharsToNat(SubSeq(s, 1, k - 1)) + DigitVal(s[k + 1])

PyFloat(v) ==
    CASE Tag(v) = "int"  -> RealV(10 * v[2])
      [] Tag(v) = "real" -> RealV(v[2])
      [] Tag(v) = "str"  ->
            IF IsDecimalLiteral(strip(Chars(v))) THEN RealV(DecimalTenths(strip(Chars(v))))
            ELSE <<"fail">>
      [] OTHER           -> <<"fail">>

\* x in (None, "", "None")
IsBlankToken(v) == v \in {Null, StrV(<<>>), StrV(<<"N", "o", "n", "e">>)}

_to_int_Uncaught(x) == IF ~IsBlankToken(x) /\ ~IsNa(x) THEN PyInt(x) ELSE Null

_to_int(x) ==
    IF ~IsBlankToken(x) /\ ~IsNa(x)
    THEN IF PyInt(x) = <<"fail">> THEN Null ELSE PyInt(x)
    ELSE Null

_to_float(x) ==
    IF ~IsBlankToken(x) /\ ~IsNa(x)
    THEN IF PyFloat(x) = <<"fail">> THEN Null ELSE PyFloat(x)
    ELSE Null

_to_str(x) ==
    IF x = Null \/ Tag(x) = "nan" THEN Null
    ELSE IF strip(PyStr(x)) # <<>> THEN StrV(strip(PyStr(x))) ELSE Null

\* pd.DataFrame(items_json) plus the two stamped columns: the columns are the
\* keys that occur in some record, then marca and modelo
DfColumns(its) == UNION {DOMAIN its[i] : i \in 1..Len(its)} \cup {"marca", "modelo"}

missing_Unchecked(its) == {}

missing(its) == {c \in ColNames(expected_cols) : c \notin DfColumns(its)}

Cell_RecordFirst(r, c, ma, mo) ==
    LET raw == IF c \in DOMAIN r THEN r[c]
               ELSE CASE c = "marca"  -> ma
                      [] c = "modelo" -> mo
                      [] OTHER        -> NaN
    IN  IF Tag(raw) = "nan" THEN Null ELSE raw

\* the cell of record r in column c: the stamped label, the record's value,
\* or NaN where the record lacks the key; .replace({np.nan: None})
Cell(r, c, ma, mo) ==
    LET raw == CASE c = "marca"  -> ma
                 [] c = "modelo" -> mo
                 [] OTHER        -> IF c \in DOMAIN r THEN r[c] ELSE NaN
    IN  IF Tag(raw) = "nan" THEN Null ELSE raw

\* lines 96-106: the coercion applied to each column
Coerce(c, v) ==
    CASE c \in {"km", "price", "year"} -> _to_int(v)
      [] c = "hp"                      -> _to_float(v)
      [] OTHER                         -> _to_str(v)

\* one row of df after the coercions
NormRow(r, ma, mo) == [c \in ColNames(expected_cols) |-> Coerce(c, Cell(r, c, ma, mo))]

Survives_IdOnly(d) == d["id"] # Null

\* line 111: the record survives when id, url and title are truthy
Survives(d) == ~(d["id"] = Null \/ d["url"] = Null \/ d["title"] = Null)

\* lines 108-117: the surviving rows, in batch order
RECURSIVE BuildRows(_, _, _)
BuildRows(its, ma, mo) ==
    IF its = <<>> THEN <<>>
    ELSE LET d == NormRow(Head(its), ma, mo)
         IN  (IF Survives(d) THEN <<d>> ELSE <<>>) \o BuildRows(Tail(its), ma, mo)

RECURSIVE CountSkipped(_, _, _)
CountSkipped(its, ma, mo) ==
    IF its = <<>> THEN 0
    ELSE (IF Survives(NormRow(Head(its), ma, mo)) THEN 0 ELSE 1)
         + CountSkipped(Tail(its), ma, mo)

----------------------------------------------------------------------------
(* The SQLite store: table data_moto, its columns, rows and indexes.       *)
(* A database state is [cols, rows, indexes]; cols = {} when the table is  *)
(* absent; a row is a function from the table's columns to values.         *)

\* DDL, lines 12-27: the columns CREATE TABLE gives a new table
DDLCols == ColNames(expected_cols)

\* the declared type affinity of a column (DDL, and TEXT for the added ones)
IntegerCols == {"id", "price", "year", "provinceId"}

RealCols == {"km", "hp"}

IsIntegral(v) ==
    \/ Tag(v) = "int"
    \/ Tag(v) = "real" /\ v[2] % 10 = 0
    \/ Tag(v) = "str" /\ IsDecimalLiteral(Chars(v)) /\ DecimalTenths(Chars(v)) % 10 = 0

\* the value SQLite stores in (or compares with) column c when given v
Affinity(c, v) ==
    IF v = Null THEN Null
    ELSE CASE c \in IntegerCols ->
                IF IsIntegral(v) THEN IntV(PyFloat(v)[2] \div 10)
                ELSE IF PyFloat(v) # <<"fail">> THEN PyFloat(v) ELSE v
           [] c \in RealCols ->
                IF PyFloat(v) # <<"fail">> THEN PyFloat(v) ELSE v
           [] OTHER ->
                IF Tag(v) \in {"int", "real"} THEN StrV(PyStr(v)) ELSE v

NoTable == [cols |-> {}, rows |-> {}, indexes |-> {}]

\* cur.execute(DDL): CREATE TABLE IF NOT EXISTS
CreateTable(d) == IF d.cols = {} THEN [d EXCEPT !.cols = DDLCols] ELSE d

AddColumn_Noop(d, col) == d

\* ALTER TABLE data_moto ADD COLUMN col: existing rows read NULL in it
AddColumn(d, col) ==
    [d EXCEPT !.cols = @ \cup {col},
              !.rows = {[c \in DOMAIN r \cup {col} |-> IF c = col THEN Null ELSE r[c]] : r \in @}]

\* lines 138-145: a missing label column is added
EnsureColumn(d, col) == IF col \notin d.cols THEN AddColumn(d, col) ELSE d

added_cols_Always(d) == {"created_at", "updated_at"}

\* lines 148-152: the timestamp columns that are missing
added_cols(d) == {col \in {"created_at", "updated_at"} : col \notin d.cols}

\* lines 131-152 as committed: sqlite3 opens no transaction for DDL, so
\* CREATE TABLE and every ALTER TABLE take effect at once
MigrateColumns(d) ==
    LET d2 == EnsureColumn(EnsureColumn(CreateTable(d), "marca"), "modelo")
        d3 == IF "created_at" \in added_cols(d2) THEN AddColumn(d2, "created_at") ELSE d2
    IN  IF "updated_at" \in added_cols(d2) THEN AddColumn(d3, "updated_at") ELSE d3

Backfill_Skipped(d, col, t) == d

\* UPDATE data_moto SET col = COALESCE(col, datetime('now'))
Backfill(d, col, t) ==
    [d EXCEPT !.rows = {[r EXCEPT ![col] = IF @ = Null THEN TimeV(t) ELSE @] : r \in @}]

\* lines 153-159: the backfill of the columns this call added
BackfillAdded(d, added, t) ==
    LET d1 == IF "created_at" \in added THEN Backfill(d, "created_at", t) ELSE d
    IN  IF "updated_at" \in added THEN Backfill(d1, "updated_at", t) ELSE d1

PlainIndexes ==
    {"idx_data_moto_price", "idx_data_moto_year", "idx_data_moto_km", "idx_data_moto_prov"}

\* the first of the plain index statements, line 165
FirstPlainIndex == "idx_data_moto_price"

FailingIndex_ExprUncaught(plainOk, exprOk) ==
    IF ~plainOk THEN {FirstPlainIndex}
    ELSE IF ~exprOk THEN {"idx_data_moto_title_ci"} ELSE {}

\* lines 165-173: the index whose failed creation leaves the function. The
\* plain statements run unguarded, the expression index inside
\* try / except sqlite3.OperationalError: pass
FailingIndex(plainOk, exprOk) == IF ~plainOk THEN {FirstPlainIndex} ELSE {}

\* lines 165-173: CREATE INDEX IF NOT EXISTS; the expression index is
\* skipped when the engine rejects it (exprOk = FALSE) and it does not exist
CreateIndexes(d, exprOk) ==
    [d EXCEPT !.indexes =
        @ \cup PlainIndexes \cup (IF exprOk THEN {"idx_data_moto_title_ci"} ELSE {})]

----------------------------------------------------------------------------
(* Upsert, lookup and summary: fun_db.py lines 175-212 *)

set_parts_WithoutKm == ColNames(expected_cols) \ {"id", "km"}

\* lines 176-187: the columns ON CONFLICT(id) DO UPDATE SET overwrites
set_parts == ColNames(expected_cols) \ {"id"}

touched_cols_BothStamps == {"created_at", "updated_at"}

\* lines 188-189: the column DO UPDATE stamps with datetime('now')
touched_cols == {"updated_at"}

\* the values of one parameter tuple as SQLite stores them
Stored(d) == [c \in ColNames(expected_cols) |-> Affinity(c, d[c])]

UrlTaken_Unchecked(d, url, self) == FALSE

\* some row other than `self` already holds this url: UNIQUE (url)
UrlTaken(d, url, self) == \E r \in d.rows : r # self /\ r["url"] = url

ReplaceRow_DropsOld(rs, old, new) == rs \ {old}

ReplaceRow_KeepsOld(rs, old, new) == rs \cup {new}

\* ON CONFLICT(id) DO UPDATE: the stored row is rewritten in place
ReplaceRow(rs, old, new) == (rs \ {old}) \cup {new}

Failed(d, exc) == [ok |-> FALSE, db |-> d, exc |-> exc]

Done(d) == [ok |-> TRUE, db |-> d, exc |-> "none"]

\* One execution of UPSERT_SQL with the parameters of record rec at time t;
\* touch = "updated_at" in existing_cols (line 188).
\* A failed statement leaves db as it was: sqlite3.OperationalError when the
\* statement names a column the table lacks, sqlite3.IntegrityError for an
\* id that is no integer (INTEGER PRIMARY KEY), a NULL url or title
\* (NOT NULL) and a url that another row holds (UNIQUE).
Upsert(d, rec, touch, t) ==
    LET v    == Stored(rec)
        hit  == {r \in d.rows : r["id"] = v["id"]}
    IN  IF ~(DDLCols \subseteq d.cols) \/ (touch /\ "updated_at" \notin d.cols)
        THEN Failed(d, "OperationalError")
        ELSE IF Tag(v["id"]) # "int" \/ v["url"] = Null \/ v["title"] = Null
        THEN Failed(d, "IntegrityError")
        ELSE IF hit # {}
        THEN LET old == CHOOSE r \in hit : TRUE
                 new == [c \in DOMAIN old |->
                            IF c \in set_parts THEN v[c]
                            ELSE IF c \in touched_cols /\ touch THEN TimeV(t)
                            ELSE old[c]]
             IN  IF UrlTaken(d, v["url"], old)
                 THEN Failed(d, "IntegrityError")
                 ELSE Done([d EXCEPT !.rows = ReplaceRow(@, old, new)])
        ELSE LET new == [c \in d.cols |-> IF c \in DDLCols THEN v[c] ELSE Null]
             IN  IF UrlTaken(d, v["url"], new)
                 THEN Failed(d, "IntegrityError")
                 ELSE Done([d EXCEPT !.rows = @ \cup {new}])

RECURSIVE ExecuteMany_LastFirst(_, _, _, _)
ExecuteMany_LastFirst(d, rs, touch, t) ==
    IF rs = <<>> THEN Done(d)
    ELSE LET rest == ExecuteMany_LastFirst(d, Tail(rs), touch, t)
         IN  IF rest.ok THEN Upsert(rest.db, Head(rs), touch, t) ELSE rest

RECURSIVE ExecuteMany_SkipsFailed(_, _, _, _)
ExecuteMany_SkipsFailed(d, rs, touch, t) ==
    IF rs = <<>> THEN Done(d)
    ELSE ExecuteMany_SkipsFailed(Upsert(d, Head(rs), touch, t).db, Tail(rs), touch, t)

\* cur.executemany(UPSERT_SQL, rows): the statements run in batch order
\* inside one transaction and the first failure raises
RECURSIVE ExecuteMany(_, _, _, _)
ExecuteMany(d, rs, touch, t) ==
    IF rs = <<>> THEN Done(d)
    ELSE LET one == Upsert(d, Head(rs), touch, t)
         IN  IF one.ok THEN ExecuteMany(one.db, Tail(rs), touch, t) ELSE one

ConnAtExit_OnReturnOnly(c, raising) == IF raising THEN c ELSE "closed"

\* lines 213-214: finally: conn.close() runs when the try block returns and
\* when an exception leaves it
ConnAtExit(c, raising) == "closed"

Rollback_KeepsPartial(committed, uncommitted) == uncommitted

\* lines 213-214: conn.close() without a commit drops the open transaction,
\* and the file keeps its committed content
Rollback(committed, uncommitted) == committed

\* ids[i:i+900]
ChunkSize == 900

Chunk_OneMore(ids, i) ==
    SubSeq(ids, i + 1, IF i + ChunkSize + 1 < Len(ids) THEN i + ChunkSize + 1 ELSE Len(ids))

Chunk(ids, i) ==
    SubSeq(ids, i + 1, IF i + ChunkSize < Len(ids) THEN i + ChunkSize ELSE Len(ids))

\* lines 201-204: the parameter lists of the SELECT statements the loop
\* issues, from offset i
RECURSIVE Queries(_, _)
Queries(ids, i) ==
    IF i >= Len(ids) THEN <<>>
    ELSE <<Chunk(ids, i)>> \o Queries(ids, i + ChunkSize)

\* SELECT id FROM data_moto WHERE id IN (chunk): the stored id of every row
\* whose id equals a parameter under the column's affinity
SelectIds(d, chunk) ==
    {r["id"] : r \in {x \in d.rows :
                        \E k \in 1..Len(chunk) : x["id"] = Affinity("id", chunk[k])}}

\* lines 199-205: the loop over the chunks, from offset i
RECURSIVE LookupFrom(_, _, _)
LookupFrom(d, ids, i) ==
    IF i >= Len(ids) THEN {}
    ELSE SelectIds(d, Chunk(ids, i)) \cup LookupFrom(d, ids, i + ChunkSize)

Ids(rs) == [k \in 1..Len(rs) |-> rs[k]["id"]]

CountInserted_None(rs, existing) == 0

\* line 210: sum(1 for r in rows if r[0] not in existing_ids)
CountInserted(rs, existing) == Cardinality({k \in 1..Len(rs) : rs[k]["id"] \notin existing})

Summary_TotalWithoutSkipped(rs, existing, skip) ==
    [kind     |-> "summary",
     inserted |-> CountInserted(rs, existing),
     updated  |-> Len(rs) - CountInserted(rs, existing),
     skipped  |-> skip,
     total    |-> Len(rs)]

\* line 212
Summary(rs, existing, skip) ==
    [kind     |-> "summary",
     inserted |-> CountInserted(rs, existing),
     updated  |-> Len(rs) - CountInserted(rs, existing),
     skipped  |-> skip,
     total    |-> Len(rs) + skip]

EarlySummary_CountsNothing(skip) ==
    [kind |-> "summary", inserted |-> 0, updated |-> 0, skipped |-> 0, total |-> 0]

\* line 119
EarlySummary(skip) ==
    [kind |-> "summary", inserted |-> 0, updated |-> 0, skipped |-> skip, total |-> skip]

\* line 75 (info: the missing columns the message names), and an exception
\* of the storage layer leaving the function (info: the index or statement
\* the engine failed on, when it failed for a reason of its own)
Raised(exc, info) == [kind |-> "raised", exc |-> exc, info |-> info]

----------------------------------------------------------------------------
(* Bounds and inputs *)

\* longest batch passed to a call
MaxBatch == 2

\* last value of the clock
MaxNow == 1

C(ch) == StrV(<<ch>>)

\* a record whose optional fields are all well formed, and which brings
\* labels of its own
FullPay ==
    [km |-> IntV(5), price |-> C("9"), year |-> IntV(2), imgUrl |-> C("i"),
     provinceId |-> C("8"), hp |-> StrV(<<"1", ".", "5">>),
     marca |-> C("z"), modelo |-> C("q")]

\* a record whose optional fields are malformed, blank or null
BadPay ==
    [km |-> C("x"), price |-> StrV(<<>>), year |-> Null, imgUrl |-> C(" "),
     provinceId |-> Null, hp |-> StrV(<<"1", ",", "5">>)]

Rec(id, url, title, pay) == [id |-> id, url |-> url, title |-> title] @@ pay

Without(r, k) == [c \in DOMAIN r \ {k} |-> r[c]]

\* the well-formed records: two ids, two urls; the same id comes with either
\* url and either payload, the same url with either id
GoodRecords ==
    { Rec(C("1"), C("u"), C("t"), FullPay),
      Rec(C("1"), C("v"), StrV(<<" ", "s">>), BadPay),
      Rec(C("2"), C("v"), C("t"), FullPay),
      Rec(C("2"), C("u"), StrV(<<" ", "s">>), BadPay) }

DefectRecords ==
    { Rec(C(" "), C("u"), C("t"), FullPay),                 \* blank id
      Rec(C("1"), StrV(<<>>), C("t"), FullPay),             \* empty url
      Without(Rec(C("1"), C("u"), C("t"), FullPay), "title"), \* no title key
      Rec(C("1"), StrV(<<>>), C(" "), BadPay),              \* no url, no title
      Without(Rec(C("2"), C("v"), C("t"), FullPay), "price"), \* no price key
      Rec(C("A"), C("w"), C("t"), FullPay) }                \* id is no integer

Records == GoodRecords \cup DefectRecords

Batches == UNION {[1..k -> Records] : k \in 0..MaxBatch}

\* the (marca, modelo) arguments
Labels == {<<C("n"), StrV(<<" ", "y", " ">>)>>}

\* tables left by earlier versions of the routine: without the label
\* columns, or as the DDL creates them; neither has the timestamp columns
LegacySchemas == {DDLCols \ {"marca", "modelo"}, DDLCols}

LegacyRow(rec, cs) == [c \in cs |-> Stored(NormRow(rec, C("m"), C("x")))[c]]

LegacyRecordSets ==
    { {},
      {Rec(C("1"), C("u"), C("t"), FullPay)},
      {Rec(C("1"), C("u"), C("t"), FullPay), Rec(C("2"), C("v"), C("s"), BadPay)} }

InitDbs ==
    {NoTable} \cup
    {[cols |-> cs, rows |-> {LegacyRow(rec, cs) : rec \in recs}, indexes |-> {}] :
        cs \in LegacySchemas, recs \in LegacyRecordSets}

----------------------------------------------------------------------------
(* The call as a state machine *)

NoTxn == [cols |-> {}, rows |-> {}, indexes |-> {"no transaction"}]

NoResult == [kind |-> "none"]

NoFirst == [kind |-> "none"]

\* no second caller is at work
NoPeer == [pc |-> "none"]

\* no db_* function is called
NoApi == [pc |-> "none"]

\* what the connection reads: its own uncommitted changes when it has some
View == IF txn # NoTxn THEN txn ELSE db

Init ==
    /\ db \in InitDbs
    /\ txn = NoTxn
    /\ conn = "closed"
    /\ now = 0
    /\ pc = "idle"
    /\ items = <<>>
    /\ marca = Null
    /\ modelo = Null
    /\ rows = <<>>
    /\ skipped = 0
    /\ existing_cols = {}
    /\ existing_ids = {}
    /\ result = NoResult
    /\ pre = NoTable
    /\ first = NoFirst
    /\ opened = FALSE
    /\ peer = NoPeer
    /\ api = NoApi

\* lines 65-124: the frame is built, the required columns are checked, the
\* records are normalised and filtered; the call leaves at once when a column
\* is missing (ValueError) or no record survives (summary), and connects
\* otherwise
Begin(its, ma, mo, fst) ==
    /\ items' = its
    /\ marca' = ma
    /\ modelo' = mo
    /\ pre' = db
    /\ first' = fst
    /\ existing_cols' = {}
    /\ existing_ids' = {}
    /\ IF missing(its) # {}
       THEN /\ rows' = <<>>
            /\ skipped' = 0
            /\ result' = Raised("ValueError", missing(its))
            /\ conn' = "closed"
            /\ opened' = FALSE
            /\ pc' = "done"
       ELSE /\ rows' = BuildRows(its, ma, mo)
            /\ skipped' = CountSkipped(its, ma, mo)
            /\ IF BuildRows(its, ma, mo) = <<>>
               THEN /\ result' = EarlySummary(CountSkipped(its, ma, mo))
                    /\ conn' = "closed"
                    /\ opened' = FALSE
                    /\ pc' = "done"
               ELSE /\ result' = NoResult
                    /\ conn' = "open"
                    /\ opened' = TRUE
                    /\ pc' = "schema"
    /\ UNCHANGED <<db, txn, now, peer, api>>

\* insert_motos_from_json(items_json, marca, modelo) is called
Call ==
    /\ pc = "idle"
    /\ \E its \in Batches, lab \in Labels : Begin(its, lab[1], lab[2], NoFirst)

\* the caller repeats a call that returned a summary, with the same
\* arguments; first remembers the outcome of the first of the two calls
CallAgain ==
    /\ pc = "done"
    /\ first = NoFirst
    /\ result.kind = "summary"
    /\ Begin(items, marca, modelo, [kind |-> "call", result |-> result, pre |-> pre])

AllIndexes == PlainIndexes \cup {"idx_data_moto_title_ci"}

\* the outcomes the engine can give the two kinds of index statement: both
\* succeed, the expression index is rejected, or the first plain one fails
IndexOutcomes == {<<TRUE, TRUE>>, <<TRUE, FALSE>>, <<FALSE, TRUE>>}

\* lines 126-173: schema-ensure. The DDL statements commit at once; the
\* backfill UPDATEs open a transaction that stays open, and then the index
\* creation belongs to it. A failed plain index leaves the function through
\* finally: conn.close(), which drops the open transaction
EnsureSchema ==
    /\ pc = "schema"
    /\ \E o \in IndexOutcomes :
          LET plainOk  == o[1]
              exprOk   == o[2]
              labelled == EnsureColumn(EnsureColumn(CreateTable(db), "marca"), "modelo")
              added    == added_cols(labelled)
              migrated == MigrateColumns(db)
          IN  /\ existing_cols' = IF added # {} THEN migrated.cols ELSE labelled.cols
              /\ IF FailingIndex(plainOk, exprOk) # {}
                 THEN /\ db' = Rollback(migrated, BackfillAdded(migrated, added, now))
                      /\ txn' = NoTxn
                      /\ conn' = ConnAtExit(conn, TRUE)
                      /\ result' = Raised("OperationalError", FailingIndex(plainOk, exprOk))
                      /\ pc' = "done"
                 ELSE /\ IF added # {}
                         THEN /\ db' = migrated
                              /\ txn' = CreateIndexes(BackfillAdded(migrated, added, now), exprOk)
                         ELSE /\ db' = CreateIndexes(migrated, exprOk)
                              /\ txn' = NoTxn
                      /\ conn' = conn
                      /\ result' = result
                      /\ pc' = "lookup"
    /\ UNCHANGED <<now, items, marca, modelo, rows, skipped, existing_ids,
                   pre, first, opened, peer, api>>

\* lines 198-205: the existing-key lookup; a SELECT the engine fails leaves
\* the function through finally: conn.close()
Lookup ==
    /\ pc = "lookup"
    /\ \E selectOk \in BOOLEAN :
          IF selectOk
          THEN /\ existing_ids' = LookupFrom(View, Ids(rows), 0)
               /\ pc' = "write"
               /\ UNCHANGED <<db, txn, conn, result>>
          ELSE /\ existing_ids' = existing_ids
               /\ db' = Rollback(db, View)
               /\ txn' = NoTxn
               /\ conn' = ConnAtExit(conn, TRUE)
               /\ result' = Raised("OperationalError", {"SELECT"})
               /\ pc' = "done"
    /\ UNCHANGED <<now, items, marca, modelo, rows, skipped, existing_cols,
                   pre, first, opened, peer, api>>

\* lines 207-214: executemany, commit and the summary; on a failure the
\* exception leaves the function and conn.close() drops the open transaction
Write ==
    /\ pc = "write"
    /\ LET res == ExecuteMany(View, rows, "updated_at" \in existing_cols, now)
       IN  IF res.ok
           THEN /\ db' = res.db
                /\ result' = Summary(rows, existing_ids, skipped)
           ELSE /\ db' = Rollback(db, res.db)
                /\ result' = Raised(res.exc, {})
    /\ txn' = NoTxn
    /\ conn' = ConnAtExit(conn, ~ExecuteMany(View, rows, "updated_at" \in existing_cols, now).ok)
    /\ pc' = "done"
    /\ UNCHANGED <<now, items, marca, modelo, rows, skipped, existing_cols,
                   existing_ids, pre, first, opened, peer, api>>

\* the caller takes the outcome; the frame of the call is gone
Return ==
    /\ pc = "done"
    /\ pc' = "idle"
    /\ items' = <<>>
    /\ marca' = Null
    /\ modelo' = Null
    /\ rows' = <<>>
    /\ skipped' = 0
    /\ existing_cols' = {}
    /\ existing_ids' = {}
    /\ result' = NoResult
    /\ pre' = NoTable
    /\ first' = NoFirst
    /\ opened' = FALSE
    /\ UNCHANGED <<db, txn, conn, now, peer, api>>

\* time passes; the clock is read by EnsureSchema and by Write only, so it
\* is advanced just before one of them
Tick ==
    /\ now < MaxNow
    /\ pc \in {"schema", "write"}
    /\ now' = now + 1
    /\ UNCHANGED <<db, txn, conn, pc, items, marca, modelo, rows, skipped,
                   existing_cols, existing_ids, result, pre, first, opened, peer,
                   api>>

Next == Call \/ CallAgain \/ EnsureSchema \/ Lookup \/ Write \/ Return \/ Tick

Spec == Init /\ [][Next]_vars

----------------------------------------------------------------------------
(* The lookup of a large batch: a call that stands before its lookup with  *)
(* a batch of about a multiple of 900 surviving records                    *)

\* most chunks a large batch fills
MaxChunks == 2

\* record k of a large batch: ids and urls all distinct
BigItem(k) == Rec(StrV(NatToChars(k)), StrV(<<"u">> \o NatToChars(k)), C("t"), FullPay)

BigBatch(n) == [k \in 1..n |-> BigItem(k)]

\* batch sizes around the multiples of the chunk size
BigSizes ==
    {n \in {k * ChunkSize + d : k \in 0..MaxChunks, d \in {-1, 0, 1}} : n >= 1}

\* a row some earlier call stored and stamped
BigRow(k) ==
    [c \in DDLCols \cup {"created_at", "updated_at"} |->
        IF c \in DDLCols THEN Stored(NormRow(BigItem(k), C("n"), C("y")))[c] ELSE TimeV(0)]

\* the ids stored before the call: none, some of the first chunk, ids on
\* either side and on both sides of a chunk border, ids of the last chunk,
\* ids of no record
BigStoredIds ==
    { {}, {1}, {ChunkSize + 1}, {ChunkSize, ChunkSize + 1},
      {1, MaxChunks * ChunkSize, MaxChunks * ChunkSize + 1},
      {ChunkSize - 1, (MaxChunks + 1) * ChunkSize} }

BigDbs ==
    {[cols |-> DDLCols \cup {"created_at", "updated_at"},
      rows |-> {BigRow(k) : k \in ks},
      indexes |-> AllIndexes] : ks \in BigStoredIds}

ChunkInit ==
    /\ db \in BigDbs
    /\ \E n \in BigSizes, lab \in Labels :
          /\ items = BigBatch(n)
          /\ marca = lab[1]
          /\ modelo = lab[2]
          /\ rows = [k \in 1..n |-> NormRow(BigItem(k), lab[1], lab[2])]
    /\ pc = "lookup"
    /\ conn = "open"
    /\ opened = TRUE
    /\ result = NoResult
    /\ txn = NoTxn
    /\ now = 0
    /\ skipped = 0
    /\ existing_cols = db.cols
    /\ existing_ids = {}
    /\ pre = db
    /\ first = NoFirst
    /\ peer = NoPeer
    /\ api = NoApi

ChunkNext == Lookup

ChunkSpec == ChunkInit /\ [][ChunkNext]_vars

----------------------------------------------------------------------------
(* Two callers on one database file: each has passed schema-ensure on a    *)
(* migrated table and stands before its lookup; their lookups and writes   *)
(* interleave in any order. A write (executemany and commit) is one step:  *)
(* the engine lets one connection write at a time.                         *)

\* the batches whose records all survive
SurvivorBatches == UNION {[1..k -> GoodRecords] : k \in 1..MaxBatch}

\* a row an earlier call stored and stamped
StampedRow(rec) ==
    [c \in DDLCols \cup {"created_at", "updated_at"} |->
        IF c \in DDLCols THEN Stored(NormRow(rec, C("m"), C("x")))[c] ELSE TimeV(0)]

\* migrated tables: empty, or holding one row
RaceDbs ==
    {[cols |-> DDLCols \cup {"created_at", "updated_at"},
      rows |-> {StampedRow(rec) : rec \in recs},
      indexes |-> AllIndexes] : recs \in {{}, {Rec(C("1"), C("u"), C("t"), FullPay)}}}

\* the frame of a second call that stands before its lookup
PeerAtLookup(its, ma, mo, cols) ==
    [pc            |-> "lookup",
     items         |-> its,
     marca         |-> ma,
     modelo        |-> mo,
     rows          |-> BuildRows(its, ma, mo),
     skipped       |-> CountSkipped(its, ma, mo),
     existing_cols |-> cols,
     existing_ids  |-> {},
     result        |-> NoResult,
     conn          |-> "open"]

RaceInit ==
    /\ db \in RaceDbs
    /\ \E its \in SurvivorBatches, pits \in SurvivorBatches, lab \in Labels :
          /\ items = its
          /\ marca = lab[1]
          /\ modelo = lab[2]
          /\ rows = BuildRows(its, lab[1], lab[2])
          /\ skipped = CountSkipped(its, lab[1], lab[2])
          /\ peer = PeerAtLookup(pits, lab[1], lab[2], db.cols)
    /\ pc = "lookup"
    /\ conn = "open"
    /\ opened = TRUE
    /\ result = NoResult
    /\ txn = NoTxn
    /\ now = 0
    /\ existing_cols = db.cols
    /\ existing_ids = {}
    /\ pre = db
    /\ first = NoFirst
    /\ api = NoApi

\* lines 198-205 in the second caller
PeerLookup ==
    /\ peer.pc = "lookup"
    /\ \E selectOk \in BOOLEAN :
          peer' = IF selectOk
                  THEN [peer EXCEPT !.existing_ids = LookupFrom(db, Ids(peer.rows), 0),
                                    !.pc = "write"]
                  ELSE [peer EXCEPT !.result = Raised("OperationalError", {"SELECT"}),
                                    !.conn = ConnAtExit(peer.conn, TRUE),
                                    !.pc = "done"]
    /\ UNCHANGED <<db, txn, conn, now, pc, items, marca, modelo, rows, skipped,
                   existing_cols, existing_ids, result, pre, first, opened, api>>

\* lines 207-214 in the second caller; it writes once no other connection
\* holds an open write transaction
PeerWrite ==
    /\ peer.pc = "write"
    /\ txn = NoTxn
    /\ LET res == ExecuteMany(db, peer.rows, "updated_at" \in peer.existing_cols, now)
       IN  /\ db' = IF res.ok THEN res.db ELSE Rollback(db, res.db)
           /\ peer' = [peer EXCEPT
                         !.result = IF res.ok
                                    THEN Summary(peer.rows, peer.existing_ids, peer.skipped)
                                    ELSE Raised(res.exc, {}),
                         !.conn = ConnAtExit(peer.conn, ~res.ok),
                         !.pc = "done"]
    /\ UNCHANGED <<txn, conn, now, pc, items, marca, modelo, rows, skipped,
                   existing_cols, existing_ids, result, pre, first, opened, api>>

RaceNext == Lookup \/ Write \/ PeerLookup \/ PeerWrite

RaceSpec == RaceInit /\ [][RaceNext]_vars

----------------------------------------------------------------------------
(* db_sqlite3_api.py: the db_* functions, called on the database file that *)
(* holds data_moto. A name is a Python value (a string is <<"str", c1,     *)
(* ...>>), a list is <<"list", seq>>, a dict is <<"dict", seq>> with one   *)
(* <<key, value>> pair per entry in insertion order. condicion_sql is raw  *)
(* SQL; the calls use the condition "id = k", an incomplete condition, or  *)
(* none.                                                                   *)

Letters ==
    {"a", "b", "c", "d", "e", "f", "g", "h", "i", "j", "k", "l", "m",
     "n", "o", "p", "q", "r", "s", "t", "u", "v", "w", "x", "y", "z",
     "A", "B", "C", "D", "E", "F", "G", "H", "I", "J", "K", "L", "M",
     "N", "O", "P", "Q", "R", "S", "T", "U", "V", "W", "X", "Y", "Z"}

\* [A-Za-z_][A-Za-z0-9_]*
IsIdentifierText(s) ==
    /\ s # <<>>
    /\ s[1] \in Letters \cup {"_"}
    /\ \A i \in 2..Len(s) : s[i] \in Letters \cup {"_"} \/ IsDigit(s[i])

\* line 59, applied with .match (line 66): ^ anchors at the start, $ at the
\* end of the string or before a line feed that ends it
_IDENTIFIER_RX(s) ==
    \/ IsIdentifierText(s)
    \/ /\ s # <<>>
       /\ s[Len(s)] = "\n"
       /\ IsIdentifierText(SubSeq(s, 1, Len(s) - 1))

validate_identifier_Any(name) == TRUE

\* lines 61-68: TRUE when the name is returned, FALSE when ValueError is raised
validate_identifier(name) == Tag(name) = "str" /\ _IDENTIFIER_RX(Chars(name))

ListV(seq) == <<"list", seq>>

DictV(pairs) == <<"dict", pairs>>

Entries(v) == v[2]

\* json_valores.keys(), json_valores.values()
Keys(d) == [i \in 1..Len(Entries(d)) |-> Entries(d)[i][1]]

Values(d) == [i \in 1..Len(Entries(d)) |-> Entries(d)[i][2]]

AllValid(names) == \A i \in 1..Len(names) : validate_identifier(names[i])

Star == StrV(<<"*">>)

\* Python truth of an argument: None, "" and [] are false
Truthy(v) == v \notin {Null, StrV(<<>>), ListV(<<>>), DictV(<<>>)}

\* a function that raised ValueError before it built its statement
Rejected == [ok |-> FALSE]

Statement(st) == [ok |-> TRUE, sql |-> st]

\* lines 101-119: the SELECT of db_read
db_read_sql(tabla, campos, condicion_sql) ==
    IF ~validate_identifier(tabla) THEN Rejected
    ELSE IF ~Truthy(campos) \/ (Tag(campos) = "list" /\ Entries(campos) = <<Star>>)
    THEN Statement([op |-> "select", t |-> tabla, star |-> TRUE, cols |-> <<>>,
                    where |-> condicion_sql])
    ELSE IF Tag(campos) = "list" /\ AllValid(Entries(campos))
    THEN Statement([op |-> "select", t |-> tabla, star |-> FALSE,
                    cols |-> Entries(campos), where |-> condicion_sql])
    ELSE Rejected

\* lines 158, 162: the PRAGMA of db_table_schema
db_table_schema_sql(tabla) ==
    IF validate_identifier(tabla)
    THEN Statement([op |-> "table_info", t |-> tabla])
    ELSE Rejected

\* lines 183-186: the UPDATE of db_update
db_update_sql(tabla, campo, valor, condicion_sql) ==
    IF validate_identifier(tabla) /\ validate_identifier(campo)
    THEN Statement([op |-> "update", t |-> tabla, col |-> campo, val |-> valor,
                    where |-> condicion_sql])
    ELSE Rejected

update_cols_All(cols, conflict_cols_safe) == cols

\* line 223: the supplied columns that are not conflict columns
update_cols(cols, conflict_cols_safe) ==
    SelectSeq(cols, LAMBDA c : \A i \in 1..Len(conflict_cols_safe) : conflict_cols_safe[i] # c)

\* lines 207-227: the INSERT of db_insert, with its ON CONFLICT clause when
\* update_on_conflict is set
db_insert_sql(tabla, json_valores, update_on_conflict, conflict_cols) ==
    IF ~validate_identifier(tabla) THEN Rejected
    ELSE IF Tag(json_valores) # "dict" \/ ~Truthy(json_valores) THEN Rejected
    ELSE IF ~AllValid(Keys(json_valores)) THEN Rejected
    ELSE IF ~update_on_conflict
    THEN Statement([op |-> "insert", t |-> tabla, cols |-> Keys(json_valores),
                    vals |-> Values(json_valores), upsert |-> FALSE,
                    conflict |-> <<>>, set |-> <<>>])
    ELSE IF ~Truthy(conflict_cols) THEN Rejected
    ELSE IF ~AllValid(Entries(conflict_cols)) THEN Rejected
    ELSE IF update_cols(Keys(json_valores), Entries(conflict_cols)) = <<>> THEN Rejected
    ELSE Statement([op |-> "insert", t |-> tabla, cols |-> Keys(json_valores),
                    vals |-> Values(json_valores), upsert |-> TRUE,
                    conflict |-> Entries(conflict_cols),
                    set |-> update_cols(Keys(json_valores), Entries(conflict_cols))])

\* lines 255-256: the DELETE of db_delete
db_delete_sql(tabla, condicion_sql) ==
    IF validate_identifier(tabla)
    THEN Statement([op |-> "delete", t |-> tabla, where |-> condicion_sql])
    ELSE Rejected

\* lines 271-273: the DELETE of db_delete_pk
db_delete_pk_sql(tabla, pk, valor) ==
    IF validate_identifier(tabla) /\ validate_identifier(pk)
    THEN Statement([op |-> "delete_pk", t |-> tabla, col |-> pk, val |-> valor])
    ELSE Rejected

\* the statement a call builds, or Rejected
BuildSql(call) ==
    CASE call.fn = "db_read" ->
            db_read_sql(call.tabla, call.campos, call.condicion_sql)
      [] call.fn = "db_table_schema" ->
            db_table_schema_sql(call.tabla)
      [] call.fn = "db_update" ->
            db_update_sql(call.tabla, call.campo, call.valor, call.condicion_sql)
      [] call.fn = "db_insert" ->
            db_insert_sql(call.tabla, call.json_valores, call.update_on_conflict,
                          call.conflict_cols)
      [] call.fn = "db_delete" ->
            db_delete_sql(call.tabla, call.condicion_sql)
      [] call.fn = "db_delete_pk" ->
            db_delete_pk_sql(call.tabla, call.pk, call.valor)

\* how SQL spells the table and its columns
TableSpelling == <<"d", "a", "t", "a", "_", "m", "o", "t", "o">>

Spelling ==
    [id         |-> <<"i", "d">>,
     url        |-> <<"u", "r", "l">>,
     title      |-> <<"t", "i", "t", "l", "e">>,
     km         |-> <<"k", "m">>,
     price      |-> <<"p", "r", "i", "c", "e">>,
     year       |-> <<"y", "e", "a", "r">>,
     imgUrl     |-> <<"i", "m", "g", "U", "r", "l">>,
     provinceId |-> <<"p", "r", "o", "v", "i", "n", "c", "e", "I", "d">>,
     hp         |-> <<"h", "p">>,
     marca      |-> <<"m", "a", "r", "c", "a">>,
     modelo     |-> <<"m", "o", "d", "e", "l", "o">>,
     created_at |-> <<"c", "r", "e", "a", "t", "e", "d", "_", "a", "t">>,
     updated_at |-> <<"u", "p", "d", "a", "t", "e", "d", "_", "a", "t">>]

\* the word SQLite reads where a validated name stands in the statement: a
\* line feed after it is white space
SqlWord(name) ==
    LET s == Chars(name)
    IN  IF s # <<>> /\ s[Len(s)] = "\n" THEN SubSeq(s, 1, Len(s) - 1) ELSE s

NoColumn == "no such column"

\* the column of d that a name in the statement denotes
ColumnOf(d, name) ==
    IF \E c \in d.cols : Spelling[c] = SqlWord(name)
    THEN CHOOSE c \in d.cols : Spelling[c] = SqlWord(name)
    ELSE NoColumn

ColumnsOf(d, names) == {ColumnOf(d, names[i]) : i \in 1..Len(names)}

\* the statement names a table the file holds
TableExists(d, name) == d.cols # {} /\ SqlWord(name) = TableSpelling

\* the conditions the calls pass as condicion_sql
IdEq(k) == <<"id =", k>>

Incomplete == <<"id =">>

IsIdEq(cond) == Len(cond) = 2 /\ cond[1] = "id ="

\* the rows a WHERE clause selects
Where(d, cond) == {r \in d.rows : r["id"] = IntV(cond[2])}

\* sqlite3 binds None, int, float, str and bytes
Bindable(v) == Tag(v) \in {"null", "int", "real", "str"}

Ran(d, value) == [ok |-> TRUE, db |-> d, exc |-> "none", value |-> value]

\* UNIQUE: a row other than `self` holds the id or the url of row new
Clashes(d, new, self) ==
    \E r \in d.rows \ self : r["id"] = new["id"] \/ r["url"] = new["url"]

\* datatype mismatch on the INTEGER PRIMARY KEY, NOT NULL on url and title
IllFormed(new) == Tag(new["id"]) # "int" \/ new["url"] = Null \/ new["title"] = Null

\* the rowid SQLite gives a row inserted without an id
AutoId(d) ==
    IF d.rows = {} THEN 1
    ELSE (CHOOSE n \in {r["id"][2] : r \in d.rows} :
             \A r \in d.rows : r["id"][2] <= n) + 1

\* lines 121-131: SELECT ... FROM t [WHERE ...]
ExecSelect(d, st) ==
    IF ~TableExists(d, st.t) \/ NoColumn \in ColumnsOf(d, st.cols)
       \/ (Truthy(st.where) /\ ~IsIdEq(st.where))
    THEN Failed(d, "OperationalError")
    ELSE LET sel  == IF Truthy(st.where) THEN Where(d, st.where) ELSE d.rows
             cols == IF st.star THEN d.cols ELSE ColumnsOf(d, st.cols)
         IN  Ran(d, [columns  |-> cols,
                     rows     |-> {[c \in cols |-> r[c]] : r \in sel},
                     rowcount |-> Cardinality(sel)])

\* lines 159-175: PRAGMA table_info(t) lists nothing for a table the file lacks
ExecTableInfo(d, st) ==
    Ran(d, IF TableExists(d, st.t) THEN d.cols ELSE {})

\* lines 187-192: UPDATE t SET c = ? WHERE ...
ExecUpdate(d, st) ==
    IF ~TableExists(d, st.t) \/ ColumnOf(d, st.col) = NoColumn \/ ~IsIdEq(st.where)
    THEN Failed(d, "OperationalError")
    ELSE IF ~Bindable(st.val) THEN Failed(d, "ProgrammingError")
    ELSE LET c    == ColumnOf(d, st.col)
             sel  == Where(d, st.where)
             changed(r) == [r EXCEPT ![c] = Affinity(c, st.val)]
         IN  IF \E r \in sel : IllFormed(changed(r)) \/ Clashes(d, changed(r), {r})
             THEN Failed(d, "IntegrityError")
             ELSE Ran([d EXCEPT !.rows = (@ \ sel) \cup {changed(r) : r \in sel}],
                      [rowcount |-> Cardinality(sel)])

\* lines 228-232: INSERT INTO t (cols) VALUES (?) [ON CONFLICT (conflict) DO
\* UPDATE SET c = excluded.c, ...]. The statement is refused when it names a
\* table or column the file lacks or a conflict target that is neither the
\* primary key nor the UNIQUE column, then when a value cannot be bound; the
\* row's own constraints are checked before a conflict is resolved.
ExecInsert(d, st) ==
    LET supplied == ColumnsOf(d, st.cols)
        target   == ColumnsOf(d, st.conflict)
        setcols  == ColumnsOf(d, st.set)
        given(c) == Affinity(c, st.vals[CHOOSE i \in 1..Len(st.cols) :
                                           ColumnOf(d, st.cols[i]) = c])
        excluded == [c \in d.cols |->
                        IF c \in supplied /\ ~(c = "id" /\ given(c) = Null) THEN given(c)
                        ELSE IF c = "id" THEN IntV(AutoId(d))
                        ELSE Null]
    IN  IF ~TableExists(d, st.t) \/ NoColumn \in supplied \cup target
           \/ (st.upsert /\ target \notin {{"id"}, {"url"}})
        THEN Failed(d, "OperationalError")
        ELSE IF \E i \in 1..Len(st.vals) : ~Bindable(st.vals[i])
        THEN Failed(d, "ProgrammingError")
        ELSE IF IllFormed(excluded) THEN Failed(d, "IntegrityError")
        ELSE LET hit == IF st.upsert
                        THEN {r \in d.rows : \A c \in target : r[c] = excluded[c]}
                        ELSE {}
             IN  IF hit # {}
                 THEN LET old == CHOOSE r \in hit : TRUE
                          new == [c \in d.cols |-> IF c \in setcols THEN excluded[c] ELSE old[c]]
                      IN  IF Clashes(d, new, {old})
                          THEN Failed(d, "IntegrityError")
                          ELSE Ran([d EXCEPT !.rows = ReplaceRow(@, old, new)],
                                   [rowcount |-> 1, lastrowid |-> 0])
                 ELSE IF Clashes(d, excluded, {})
                      THEN Failed(d, "IntegrityError")
                      ELSE Ran([d EXCEPT !.rows = @ \cup {excluded}],
                               [rowcount |-> 1, lastrowid |-> excluded["id"][2]])

\* lines 257-262: DELETE FROM t WHERE ...
ExecDelete(d, st) ==
    IF ~TableExists(d, st.t) \/ ~IsIdEq(st.where)
    THEN Failed(d, "OperationalError")
    ELSE Ran([d EXCEPT !.rows = @ \ Where(d, st.where)],
             [rowcount |-> Cardinality(Where(d, st.where))])

\* lines 274-279: DELETE FROM t WHERE pk = ?
ExecDeletePk(d, st) ==
    IF ~TableExists(d, st.t) \/ ColumnOf(d, st.col) = NoColumn
    THEN Failed(d, "OperationalError")
    ELSE IF ~Bindable(st.val) THEN Failed(d, "ProgrammingError")
    ELSE LET c   == ColumnOf(d, st.col)
             sel == {r \in d.rows : r[c] = Affinity(c, st.val)}
         IN  Ran([d EXCEPT !.rows = @ \ sel], [rowcount |-> Cardinality(sel)])

\* cur.execute(sql, ...) of the six functions
Execute(d, st) ==
    CASE st.op = "select"     -> ExecSelect(d, st)
      [] st.op = "table_info" -> ExecTableInfo(d, st)
      [] st.op = "update"     -> ExecUpdate(d, st)
      [] st.op = "insert"     -> ExecInsert(d, st)
      [] st.op = "delete"     -> ExecDelete(d, st)
      [] st.op = "delete_pk"  -> ExecDeletePk(d, st)

\* the functions that commit after their statement
Writers == {"db_update", "db_insert", "db_delete", "db_delete_pk"}

Reraised_Unchanged(fn, exc) == exc

\* lines 234-247: db_insert turns sqlite3.IntegrityError into ValueError and
\* raises anything else again; the other functions catch nothing
Reraised(fn, exc) ==
    IF fn = "db_insert" /\ exc = "IntegrityError" THEN "ValueError" ELSE exc

Returned_Value(value) == [kind |-> "returned", value |-> value]

\* largest id the table comes to hold
MaxId == 2

Name(c) == StrV(Spelling[c])

data_moto == StrV(TableSpelling)

\* a well-formed name that nothing in the file bears
UnknownName == StrV(<<"x", "1">>)

\* a name the pattern refuses
BadName == StrV(<<"1", "x">>)

\* tabla: the table, the table followed by a line feed, an unknown table, a
\* refused name
TableArgs == {data_moto, StrV(TableSpelling \o <<"\n">>), UnknownName, BadName}

\* campo, pk: three columns, an unknown column, refused names, no string
ColumnArgs ==
    {Name("id"), Name("url"), Name("title"), UnknownName, BadName, Star, IntV(1)}

CamposArgs ==
    {Null, ListV(<<>>), ListV(<<Star>>), ListV(<<Name("id")>>),
     ListV(<<Name("id"), Name("url")>>), ListV(<<Name("id"), BadName>>),
     ListV(<<Star, Name("id")>>), ListV(<<UnknownName>>), ListV(<<IntV(1)>>),
     Name("id")}

Row3(id, url, title) ==
    DictV(<<<<Name("id"), id>>, <<Name("url"), url>>, <<Name("title"), title>>>>)

JsonArgs ==
    {Row3(IntV(1), C("u"), C("t")),
     Row3(IntV(1), C("v"), C("s")),
     Row3(IntV(2), C("u"), C("s")),
     Row3(C("2"), C("v"), C("t")),
     Row3(C("A"), C("v"), C("t")),                                \* id is no integer
     Row3(IntV(2), DictV(<<>>), C("t")),                          \* a value sqlite3 cannot bind
     DictV(<<<<Name("url"), C("v")>>, <<Name("title"), C("s")>>>>), \* no id
     DictV(<<<<Name("id"), IntV(1)>>>>),                          \* the key alone
     DictV(<<<<Name("id"), IntV(1)>>, <<Name("title"), C("s")>>>>), \* no url
     DictV(<<<<Name("id"), IntV(2)>>, <<UnknownName, IntV(0)>>>>),
     DictV(<<<<Name("id"), IntV(2)>>, <<BadName, IntV(0)>>>>),
     DictV(<<<<IntV(1), IntV(2)>>>>),                             \* a key that is no string
     DictV(<<>>),
     ListV(<<Name("id")>>)}                                       \* no dict

\* <<update_on_conflict, conflict_cols>>
ConflictArgs ==
    {<<FALSE, Null>>, <<FALSE, ListV(<<BadName>>)>>,
     <<TRUE, Null>>, <<TRUE, ListV(<<>>)>>,
     <<TRUE, ListV(<<Name("id")>>)>>, <<TRUE, ListV(<<Name("url")>>)>>,
     <<TRUE, ListV(<<Name("title")>>)>>, <<TRUE, ListV(<<Name("id"), Name("url")>>)>>,
     <<TRUE, ListV(<<BadName>>)>>, <<TRUE, ListV(<<UnknownName>>)>>}

\* <<campo, valor>> of db_update
UpdateArgs ==
    {<<Name("id"), IntV(2)>>, <<Name("id"), C("A")>>,
     <<Name("url"), C("v")>>, <<Name("url"), Null>>,
     <<Name("title"), C("s")>>, <<Name("title"), DictV(<<>>)>>,
     <<UnknownName, C("s")>>, <<BadName, C("s")>>, <<Star, C("s")>>, <<IntV(1), C("s")>>}

\* <<pk, valor>> of db_delete_pk
PkArgs ==
    (ColumnArgs \X {IntV(1), C("v")}) \cup {<<Name("id"), C("1")>>, <<Name("id"), DictV(<<>>)>>}

ApiCalls ==
    {[fn |-> "db_read", tabla |-> t, campos |-> cs, condicion_sql |-> w] :
        t \in TableArgs, cs \in CamposArgs, w \in {Null, IdEq(1), Incomplete}}
    \cup {[fn |-> "db_table_schema", tabla |-> t] : t \in TableArgs}
    \cup {[fn |-> "db_update", tabla |-> t, campo |-> a[1], valor |-> a[2],
           condicion_sql |-> w] :
            t \in TableArgs, a \in UpdateArgs, w \in {IdEq(1), Incomplete}}
    \cup {[fn |-> "db_insert", tabla |-> t, json_valores |-> j,
           update_on_conflict |-> u[1], conflict_cols |-> u[2]] :
            t \in TableArgs, j \in JsonArgs, u \in ConflictArgs}
    \cup {[fn |-> "db_delete", tabla |-> t, condicion_sql |-> w] :
            t \in TableArgs, w \in {IdEq(1), IdEq(2), Incomplete}}
    \cup {[fn |-> "db_delete_pk", tabla |-> t, pk |-> a[1], valor |-> a[2]] :
            t \in TableArgs, a \in PkArgs}

\* the file as insert_motos_from_json left it: data_moto with its DDL
\* columns, empty or holding one row
ApiDbs == {d \in InitDbs : d.cols = DDLCols /\ Cardinality(d.rows) <= 1}

ApiIdle == [pc |-> "idle"]

ApiInit ==
    /\ db \in ApiDbs
    /\ txn = NoTxn
    /\ conn = "closed"
    /\ now = 0
    /\ pc = "idle"
    /\ items = <<>>
    /\ marca = Null
    /\ modelo = Null
    /\ rows = <<>>
    /\ skipped = 0
    /\ existing_cols = {}
    /\ existing_ids = {}
    /\ result = NoResult
    /\ pre = NoTable
    /\ first = NoFirst
    /\ opened = FALSE
    /\ peer = NoPeer
    /\ api = ApiIdle

\* the statement of the call leaves every id within the bound
WithinMaxId(d, b) ==
    b.ok => \A r \in Execute(d, b.sql).db.rows : r["id"][2] <= MaxId

\* a db_* function is entered: it validates its names and arguments and
\* builds its statement; it raises ValueError there, or opens its connection
\* (get_db_connection)
ApiCall(call) ==
    /\ api.pc = "idle"
    /\ WithinMaxId(db, BuildSql(call))
    /\ api' = IF BuildSql(call).ok
              THEN [pc |-> "execute", call |-> call, sql |-> BuildSql(call).sql,
                    conn |-> "open", opened |-> TRUE, result |-> NoResult, pre |-> db]
              ELSE [pc |-> "done", call |-> call, sql |-> Null,
                    conn |-> "closed", opened |-> FALSE,
                    result |-> Raised("ValueError", {}), pre |-> db]
    /\ UNCHANGED <<db, txn, conn, now, pc, items, marca, modelo, rows, skipped,
                   existing_cols, existing_ids, result, pre, first, opened, peer>>

Invoke == \E call \in ApiCalls : ApiCall(call)

\* the try block of the function and its handlers: the statement runs and,
\* in the functions that write, is committed; a failure of the statement or
\* of the commit leaves the file as committed before (conn.rollback() in
\* db_insert, conn.close() in the others) and is raised; the connection is
\* closed in every case
ApiExecute ==
    /\ api.pc = "execute"
    /\ \E commitOk \in BOOLEAN :
          LET fn  == api.call.fn
              res == Execute(db, api.sql)
              exc == IF res.ok THEN "OperationalError" ELSE res.exc
          IN  IF res.ok /\ (commitOk \/ fn \notin Writers)
              THEN /\ db' = res.db
                   /\ api' = [api EXCEPT !.pc = "done",
                                         !.conn = ConnAtExit(api.conn, FALSE),
                                         !.result = Returned_Value(res.value)]
              ELSE /\ db' = Rollback(db, res.db)
                   /\ api' = [api EXCEPT !.pc = "done",
                                         !.conn = ConnAtExit(api.conn, TRUE),
                                         !.result = Raised(Reraised(fn, exc), {exc})]
    /\ UNCHANGED <<txn, conn, now, pc, items, marca, modelo, rows, skipped,
                   existing_cols, existing_ids, result, pre, first, opened, peer>>

\* the caller has the outcome and may call again
ApiReturn ==
    /\ api.pc = "done"
    /\ api' = ApiIdle
    /\ UNCHANGED <<db, txn, conn, now, pc, items, marca, modelo, rows, skipped,
                   existing_cols, existing_ids, result, pre, first, opened, peer>>

ApiNext == Invoke \/ ApiExecute \/ ApiReturn

ApiSpec == ApiInit /\ [][ApiNext]_vars

----------------------------------------------------------------------------
(* Properties *)

\* the ids of the rows a database state holds
StoredIds(d) == {r["id"] : r \in d.rows}

\* the id under which SQLite files surviving record k of the running call
RowId(k) == Affinity("id", rows[k]["id"])

Returned == pc = "done" /\ result.kind = "summary"

RaisedExc(exc) == pc = "done" /\ result.kind = "raised" /\ result.exc = exc

\* the running call repeats the arguments of a call that returned a summary,
\* whose batch had only surviving records, with distinct ids and distinct
\* urls, none of the ids stored before that first call
SecondOfTwo ==
    /\ Returned
    /\ first # NoFirst
    /\ Len(rows) >= 1
    /\ skipped = 0
    /\ \A j, k \in 1..Len(rows) :
          j # k => RowId(j) # RowId(k) /\ rows[j]["url"] # rows[k]["url"]
    /\ \A k \in 1..Len(rows) : RowId(k) \notin StoredIds(first.pre)

\* C1: calling twice in a row with the same batch of N >= 1 surviving
\* records (distinct ids, distinct urls) on a store that holds none of the
\* ids: the first call returns inserted = N, updated = 0 and the second
\* returns inserted = 0, updated = N.
C1_SecondCallCountsUpdates ==
    SecondOfTwo =>
        /\ first.result.inserted = Len(rows)
        /\ first.result.updated = 0
        /\ result.inserted = 0
        /\ result.updated = Len(rows)

\* C2: every call that returns a summary satisfies
\* inserted + updated + skipped = total, and total is the number of records
\* of the input batch, on the early return as well.
C2_SummaryAddsUp ==
    Returned =>
        /\ result.inserted + result.updated + result.skipped = result.total
        /\ result.total = Len(items)

\* a summary of a call that wrote rows and skipped a record
C2_Witness ==
    /\ Returned
    /\ opened
    /\ result.skipped >= 1
    /\ result.inserted >= 1

\* the surviving records whose id had no stored row before the write phase
FreshRecords == {k \in 1..Len(rows) : RowId(k) \notin StoredIds(pre)}

\* C3: in every successful call inserted is the number of surviving records
\* whose id had no stored row immediately before the write phase, and
\* updated is the surviving count minus inserted.
C3_InsertedCountsFreshIds ==
    (Returned /\ opened) =>
        /\ result.inserted = Cardinality(FreshRecords)
        /\ result.updated = Len(rows) - Cardinality(FreshRecords)

\* field f of input record r is null or empty after trimming
IsMissingField(r, f) ==
    \/ f \notin DOMAIN r
    \/ r[f] \in {Null, NaN}
    \/ Tag(r[f]) = "str" /\ strip(Chars(r[f])) = <<>>

Defective(r) == \E f \in {"id", "url", "title"} : IsMissingField(r, f)

\* the call got past the check of the required columns
PastValidation ==
    /\ pc \in {"schema", "lookup", "write", "done"}
    /\ ~(result.kind = "raised" /\ result.exc = "ValueError")

SurvivorIdx == {k \in 1..Len(items) : ~Defective(items[k])}

Rank(k) == Cardinality({i \in SurvivorIdx : i <= k})

\* the id input record k would be filed under, Null when it has none
ItemId(k) == Affinity("id", _to_str(Cell(items[k], "id", marca, modelo)))

\* row r as it reads on the columns cs
Project(r, cs) == [c \in cs |-> r[c]]

\* the rows filed under the id of input record k, on the columns cs
RowsOfItem(d, k, cs) == {Project(r, cs) : r \in {x \in d.rows : x["id"] = ItemId(k)}}

\* skipped counts each record that lacks id, url or title once, and the
\* parameters handed to executemany are the other records, in batch order
SkippedNotPassed ==
    /\ skipped = Cardinality({k \in 1..Len(items) : Defective(items[k])})
    /\ Len(rows) = Cardinality(SurvivorIdx)
    /\ \A k \in SurvivorIdx : rows[Rank(k)] = NormRow(items[k], marca, modelo)

\* C4 as claimed: a record whose id, url or title is null or empty after
\* trimming is never passed to the storage layer (no row with its id is
\* created or changed by the call) and adds exactly 1 to skipped, even when
\* more than one of the three fields is missing.
C4_NoRowWithItsIdTouched ==
    PastValidation =>
        /\ SkippedNotPassed
        /\ \A k \in 1..Len(items) :
              Defective(items[k]) => RowsOfItem(db, k, pre.cols) = RowsOfItem(pre, k, pre.cols)

\* C4 amended: such a record is never among the parameters passed to the
\* storage layer and adds exactly 1 to skipped, even when more than one of
\* the three fields is missing; no row with its id is created or changed on
\* the columns the table had, unless a surviving record of the same batch
\* carries the same id.
C4_DefectiveRecordsAreSkipped ==
    PastValidation =>
        /\ SkippedNotPassed
        /\ \A k \in 1..Len(items) :
              (Defective(items[k]) /\ \A j \in 1..Len(rows) : RowId(j) # ItemId(k)) =>
                  RowsOfItem(db, k, pre.cols) = RowsOfItem(pre, k, pre.cols)

\* a returned call that wrote rows and skipped one record, which lacks two
\* of the three fields and carries the id of a stored row
C4_Witness ==
    /\ Returned
    /\ opened
    /\ skipped = 1
    /\ \E k \in 1..Len(items) :
          /\ IsMissingField(items[k], "url")
          /\ IsMissingField(items[k], "title")
          /\ ItemId(k) \in StoredIds(pre)
          /\ \A j \in 1..Len(rows) : RowId(j) # ItemId(k)

\* a stored row of before the call as it reads once the table has columns cs
Extended(r, cs) == [c \in cs |-> IF c \in DOMAIN r THEN r[c] ELSE Null]

RequiredInput == {"id", "url", "title", "km", "price", "year", "imgUrl", "provinceId", "hp"}

AbsentEverywhere == {c \in RequiredInput : \A k \in 1..Len(items) : c \notin DOMAIN items[k]}

\* C6: if a required column is absent from every record of the batch, the
\* call raises a validation error naming the missing columns before any
\* connection is opened, and the store (rows and schema) is unchanged.
C6_MissingColumnRaisesBeforeStorage ==
    (pc = "done" /\ AbsentEverywhere # {}) =>
        /\ result = Raised("ValueError", AbsentEverywhere)
        /\ ~opened
        /\ conn = "closed"
        /\ txn = NoTxn
        /\ db = pre

\* a non-empty batch without a column, on a table that holds rows
C6_Witness ==
    /\ RaisedExc("ValueError")
    /\ Len(items) = 2
    /\ pre.rows # {}

MigratedCols == {"marca", "modelo", "created_at", "updated_at"}

\* the call started on an existing table that lacks some of these columns
LegacyBefore == pre.cols # {} /\ ~(MigratedCols \subseteq pre.cols)

\* the rows that existed before the call have both timestamps
OldRowsStamped ==
    \A r \in db.rows :
        r["id"] \in StoredIds(pre) =>
            /\ "created_at" \in DOMAIN r /\ r["created_at"] # Null
            /\ "updated_at" \in DOMAIN r /\ r["updated_at"] # Null

\* C7 as claimed: a call against a pre-existing table that lacks the
\* marca/modelo or the created_at/updated_at columns does not raise, the
\* missing columns are present after the call, and every row that existed
\* before the call has non-null created_at and updated_at after it.
C7_AnyCallMigrates ==
    (pc = "done" /\ LegacyBefore) =>
        /\ result.kind # "raised"
        /\ MigratedCols \subseteq db.cols
        /\ OldRowsStamped

\* the call raised because the engine failed an index or a SELECT statement
EngineFailure ==
    /\ pc = "done"
    /\ result.kind = "raised"
    /\ result.exc = "OperationalError"
    /\ result.info \in {{FirstPlainIndex}, {"SELECT"}}

\* C7 amended: a call with at least one surviving record against such a
\* table never fails on the missing columns (it raises only when the write
\* phase violates a constraint or the engine fails an index or lookup
\* statement), the missing columns are present after the call whatever its
\* outcome, and when the table lacked created_at and updated_at and the
\* call returns its summary, every row that existed before has non-null
\* created_at and updated_at.
C7_CallWithSurvivorsMigrates ==
    (pc = "done" /\ LegacyBefore /\ opened) =>
        /\ MigratedCols \subseteq db.cols
        /\ result.kind = "raised" => (result.exc = "IntegrityError" \/ EngineFailure)
        /\ (result.kind = "summary" /\ pre.cols \cap {"created_at", "updated_at"} = {})
              => OldRowsStamped

\* a summary returned on a table that had rows and none of the four columns
C7_Witness ==
    /\ Returned
    /\ opened
    /\ pre.rows # {}
    /\ pre.cols \cap MigratedCols = {}

\* C8: after any sequence of calls, successful or failed, the table holds at
\* most one row per id and no two rows share a url.
C8_IdAndUrlUnique ==
    \A r1, r2 \in db.rows : r1 # r2 => r1["id"] # r2["id"] /\ r1["url"] # r2["url"]

\* two rows stored, after a call that failed on a table migrated earlier
C8_Witness ==
    /\ RaisedExc("IntegrityError")
    /\ MigratedCols \subseteq pre.cols
    /\ Cardinality(db.rows) = 2

NonKeyCols ==
    {"url", "title", "km", "price", "year", "imgUrl", "provinceId", "hp", "marca", "modelo"}

\* surviving record k is the last one of the batch with its id
LastWithId(k) == \A j \in 1..Len(rows) : j > k => RowId(j) # RowId(k)

\* C9: when a surviving record's id already has a stored row, the upsert
\* overwrites every non-key column with the incoming value, a null included,
\* and sets updated_at to the current time.
C9_UpdateOverwritesAllColumns ==
    (Returned /\ opened) =>
        \A k \in 1..Len(rows) :
            (RowId(k) \in StoredIds(pre) /\ LastWithId(k)) =>
                \E r \in db.rows :
                    /\ r["id"] = RowId(k)
                    /\ \A c \in NonKeyCols : r[c] = Affinity(c, rows[k][c])
                    /\ r["updated_at"] = TimeV(now)

\* an update that replaced a stored km by null and an older updated_at
C9_Witness ==
    /\ Returned
    /\ opened
    /\ "updated_at" \in pre.cols
    /\ \E k \in 1..Len(rows), r0 \in pre.rows :
          /\ r0["id"] = RowId(k)
          /\ r0["km"] # Null
          /\ rows[k]["km"] = Null
          /\ r0["updated_at"] # Null
          /\ r0["updated_at"] # TimeV(now)

\* C10: no call ever removes a row: the ids stored after a call are a
\* superset of those stored before it, for every outcome of the call.
C10_NoRowRemoved == StoredIds(pre) \subseteq StoredIds(db)

\* a call that updated a stored row among two
C10_Witness ==
    /\ Returned
    /\ opened
    /\ Cardinality(pre.rows) = 2
    /\ \E k \in 1..Len(rows) : RowId(k) \in StoredIds(pre)

NumericFields == {"km", "price", "year", "hp"}

\* the value is no number: neither an int, nor a float, nor a text that
\* reads as a decimal number
Malformed(v) ==
    ~(\/ Tag(v) \in {"int", "real"}
      \/ Tag(v) = "str" /\ IsDecimalLiteral(strip(Chars(v))))

\* field c of input record r as the frame holds it
FieldOf(r, c) == IF c \in DOMAIN r THEN r[c] ELSE NaN

\* a cell of a normalised row is a Python value or None
IsValue(v) == Tag(v) \in {"null", "str", "int", "real"}

\* C11: a record whose id, url and title are all non-empty survives
\* normalisation whatever its other fields contain: it is among the rows
\* passed on, each malformed or empty km, price, year or hp is None there,
\* and no coercion lets an exception out (every cell is a value or None).
C11_MalformedFieldsBecomeNull ==
    PastValidation =>
        /\ Len(rows) = Cardinality(SurvivorIdx)
        /\ \A k \in SurvivorIdx :
              /\ \A c \in NumericFields :
                    Malformed(FieldOf(items[k], c)) => rows[Rank(k)][c] = Null
              /\ \A c \in ColNames(expected_cols) : IsValue(rows[Rank(k)][c])

\* a record with a text km, an empty price, a null year and a comma hp
\* survived and its row was written
C11_Witness ==
    /\ Returned
    /\ opened
    /\ \E k \in SurvivorIdx :
          /\ \A c \in NumericFields : Malformed(FieldOf(items[k], c))
          /\ FieldOf(items[k], "km") = C("x")
          /\ \E r \in db.rows : r["id"] = RowId(Rank(k)) /\ r["km"] = Null /\ r["hp"] = Null

\* C12 as claimed: a failure of any index creation during schema-ensure, of
\* a plain index as well as of the expression index, is caught and ignored:
\* no call raises for an index.
C12_NoIndexFailurePropagates ==
    ~(pc = "done" /\ result.kind = "raised" /\ result.info \cap AllIndexes # {})

\* C12 amended: a failure of the expression index on LOWER(title) is caught
\* and ignored, and the call goes on to the lookup and the write without
\* that index; a failure of a plain index is not caught: the call raises
\* the engine's error, closes its connection and writes no row.
C12_OnlyExpressionIndexTolerated ==
    /\ (pc = "done" /\ result.kind = "raised") => "idx_data_moto_title_ci" \notin result.info
    /\ pc \in {"lookup", "write"} => PlainIndexes \subseteq View.indexes
    /\ (pc = "done" /\ result.kind = "raised" /\ result.info \cap PlainIndexes # {}) =>
          /\ result.exc = "OperationalError"
          /\ conn = "closed"
          /\ txn = NoTxn
          /\ db.rows = {Extended(r, db.cols) : r \in pre.rows}

\* a call returned its summary and wrote a row although the expression
\* index could not be created
C12_Witness ==
    /\ Returned
    /\ opened
    /\ result.inserted >= 1
    /\ PlainIndexes \subseteq db.indexes
    /\ "idx_data_moto_title_ci" \notin db.indexes

\* C13: every connection insert_motos_from_json opens is closed by the time
\* the call exits, whether it returns a summary or raises during
\* schema-ensure, lookup or write: no call that has exited holds a
\* connection or an open transaction, and a connection is open only inside
\* the three phases of a call that opened one.
C13_ConnectionClosedAtExit ==
    /\ pc \in {"idle", "done"} => (conn = "closed" /\ txn = NoTxn)
    /\ conn = "open" => (opened /\ pc \in {"schema", "lookup", "write"})

\* a call left by an exception of the lookup while the backfill of a table
\* with rows was uncommitted
C13_Witness ==
    /\ pc = "done"
    /\ opened
    /\ result = Raised("OperationalError", {"SELECT"})
    /\ pre.rows # {}
    /\ added_cols(pre) # {}
    /\ conn = "closed"

RECURSIVE Concat(_)
Concat(qs) == IF qs = <<>> THEN <<>> ELSE Head(qs) \o Concat(Tail(qs))

\* the result of one SELECT over all the surviving ids
UnchunkedLookup == SelectIds(View, Ids(rows))

\* C14: the existing-key lookup issues queries of at most 900 identifiers
\* each, every surviving record's id appears in exactly one chunk (the
\* chunks, put end to end, are the list of surviving ids), and the union of
\* the chunk results equals the result of a single unchunked lookup, for
\* every batch size, multiples of 900 or not.
C14_ChunkedLookupIsWholeLookup ==
    pc \in {"lookup", "write"} =>
        /\ \A q \in 1..Len(Queries(Ids(rows), 0)) :
              /\ Len(Queries(Ids(rows), 0)[q]) >= 1
              /\ Len(Queries(Ids(rows), 0)[q]) <= 900
        /\ Concat(Queries(Ids(rows), 0)) = Ids(rows)
        /\ LookupFrom(View, Ids(rows), 0) = UnchunkedLookup
        /\ pc = "write" => existing_ids = UnchunkedLookup

\* a batch of 901 records was looked up in two queries, the second of one
\* id, and a stored id was found by each
C14_Witness ==
    /\ pc = "write"
    /\ Len(rows) = 901
    /\ Len(Queries(Ids(rows), 0)) = 2
    /\ existing_ids = {IntV(900), IntV(901)}

\* the schema-ensure phase of the running call is over
SchemaEnsured == pc \in {"lookup", "write"} \/ EngineFailure

\* C15: the schema-ensure phase is additive and idempotent: it never drops
\* or renames a column (the columns during and after a call include those
\* from before), and on a table that already has marca, modelo, created_at
\* and updated_at it changes neither the columns nor any stored row, so no
\* stored timestamp, and leaves no transaction open.
C15_SchemaEnsureAdditiveIdempotent ==
    /\ pre.cols \subseteq db.cols
    /\ pre.cols \subseteq View.cols
    /\ (SchemaEnsured /\ MigratedCols \subseteq pre.cols) =>
          /\ View.cols = pre.cols
          /\ View.rows = pre.rows
          /\ txn = NoTxn

\* schema-ensure ran, at a later time, on a migrated table holding a row
\* stamped by an earlier call
C15_Witness ==
    /\ pc = "lookup"
    /\ MigratedCols \subseteq pre.cols
    /\ \E r \in pre.rows : r["created_at"] # Null /\ r["created_at"] # TimeV(now)

\* a label argument as text without its surrounding blanks, None when blank
Trimmed(v) == IF strip(Chars(v)) = <<>> THEN Null ELSE StrV(strip(Chars(v)))

\* C16: every row inserted or updated by a call carries the call's marca
\* and modelo arguments, trimmed, in its marca and modelo columns, whatever
\* marca and modelo the input records themselves bring.
C16_RowsCarryCallLabels ==
    (Returned /\ opened) =>
        \A k \in 1..Len(rows) :
            \E r \in db.rows :
                /\ r["id"] = RowId(k)
                /\ r["marca"] = Trimmed(marca)
                /\ r["modelo"] = Trimmed(modelo)

\* a returned call whose batch brought labels of its own, whose modelo had
\* blanks to trim, and which updated a row stored under other labels and
\* inserted another
C16_Witness ==
    /\ Returned
    /\ opened
    /\ modelo # Trimmed(modelo)
    /\ \E k \in 1..Len(items) :
          /\ "marca" \in DOMAIN items[k] /\ items[k]["marca"] # marca
          /\ "modelo" \in DOMAIN items[k] /\ items[k]["modelo"] # modelo
    /\ \E k \in 1..Len(rows), r0 \in pre.rows :
          r0["id"] = RowId(k) /\ "marca" \in DOMAIN r0 /\ r0["marca"] \notin {Null, Trimmed(marca)}
    /\ \E k \in 1..Len(rows) : RowId(k) \notin StoredIds(pre)

FullColumnSet ==
    {"id", "url", "title", "km", "price", "year", "imgUrl", "provinceId", "hp",
     "marca", "modelo", "created_at", "updated_at"}

\* C17: after a successful call with at least one surviving record on a
\* store where data_moto is absent, the table exists with the full column
\* set and with uniqueness enforced on id and on url: its rows have an
\* integer id each, a url and a title, and no two share an id or a url.
C17_NewTableHasFullSchema ==
    (Returned /\ opened /\ pre.cols = {}) =>
        /\ db.cols = FullColumnSet
        /\ \A r \in db.rows :
              DOMAIN r = FullColumnSet /\ Tag(r["id"]) = "int" /\ r["url"] # Null /\ r["title"] # Null
        /\ \A r1, r2 \in db.rows : r1 # r2 => (r1["id"] # r2["id"] /\ r1["url"] # r2["url"])

\* a call created the table and stored two rows in it
C17_Witness ==
    /\ Returned
    /\ opened
    /\ pre = NoTable
    /\ Cardinality(db.rows) = 2

TimestampCols == {"created_at", "updated_at"}

\* C18: on a table that initially lacks the timestamp columns, every row
\* that predates the addition of created_at and updated_at has non-null
\* values in both once those columns exist, also after a call whose write
\* phase failed after the columns were added (calls the engine stopped
\* before their write phase are left aside).
C18_OldRowsStampedOnceColumnsExist ==
    (/\ pc = "done"
     /\ ~EngineFailure
     /\ pre.cols # {}
     /\ pre.cols \cap TimestampCols = {}
     /\ TimestampCols \subseteq db.cols) => OldRowsStamped

\* the ids of the surviving records that had no stored row before the call
FreshIds == {RowId(k) : k \in 1..Len(rows)} \ StoredIds(pre)

UpdatesRow(k) ==
    \/ RowId(k) \in StoredIds(pre)
    \/ \E j \in 1..Len(rows) : j < k /\ RowId(j) = RowId(k)

\* C20 as claimed: after every successful call, every row of data_moto,
\* rows newly inserted by that call included, has non-null created_at and
\* updated_at.
C20_AllRowsStamped ==
    (Returned /\ opened) =>
        \A r \in db.rows : r["created_at"] # Null /\ r["updated_at"] # Null

\* C20 amended: after every successful call, every row the call updated
\* has a non-null updated_at; a row the call newly inserted has a null
\* created_at, and a null updated_at as well unless a later record of the
\* batch carried its id.
C20_OnlyUpdatedRowsStamped ==
    (Returned /\ opened) =>
        \A k \in 1..Len(rows) :
            \A r \in db.rows :
                r["id"] = RowId(k) =>
                    /\ UpdatesRow(k) => r["updated_at"] # Null
                    /\ RowId(k) \notin StoredIds(pre) => r["created_at"] = Null
                    /\ (RowId(k) \notin StoredIds(pre)
                        /\ \A j \in 1..Len(rows) : RowId(j) = RowId(k) => j = k)
                          => r["updated_at"] = Null

\* a successful call that updated a stored row and inserted another
C20_Witness ==
    /\ Returned
    /\ opened
    /\ Len(rows) = 2
    /\ RowId(1) \in StoredIds(pre)
    /\ RowId(2) \notin StoredIds(pre)
    /\ \E r \in db.rows : r["id"] = RowId(2) /\ r["created_at"] = Null /\ r["updated_at"] = Null
    /\ \E r \in db.rows : r["id"] = RowId(1) /\ r["updated_at"] # Null

\* surviving record k has a new id and the url of a row stored before the
\* call under another id, or of an earlier record of the batch with
\* another id
UrlOfAnotherId(k) ==
    /\ RowId(k) \notin StoredIds(pre)
    /\ \/ \E r \in pre.rows : r["url"] = rows[k]["url"] /\ r["id"] # RowId(k)
       \/ \E j \in 1..Len(rows) :
             j < k /\ rows[j]["url"] = rows[k]["url"] /\ RowId(j) # RowId(k)

\* the call reached its write phase and has exited
WriteEnded == pc = "done" /\ opened /\ ~EngineFailure

\* C21 as claimed: a surviving record whose id is new but whose url equals
\* the url of a stored row with a different id, or of an earlier record of
\* the batch with a different id, makes the call fail with an integrity
\* error; no row of the batch is applied and the stored rows keep their
\* values.
C21_UrlOfAnotherIdFails ==
    (WriteEnded /\ \E k \in 1..Len(rows) : UrlOfAnotherId(k)) =>
        /\ RaisedExc("IntegrityError")
        /\ db.rows = {Extended(r, db.cols) : r \in pre.rows}

\* the table as the upsert of surviving record k finds it: the records
\* before k applied to the migrated table
BeforeUpsert(k) == ExecuteMany(MigrateColumns(pre), SubSeq(rows, 1, k - 1), TRUE, now)

\* when its upsert runs, record k has no row of its id and its url is held
\* by a row with another id
UrlHeldByAnotherRow(k) ==
    /\ BeforeUpsert(k).ok
    /\ RowId(k) \notin StoredIds(BeforeUpsert(k).db)
    /\ \E r \in BeforeUpsert(k).db.rows : r["url"] = rows[k]["url"]

\* C21 amended: a surviving record whose id has no row and whose url is
\* held by a row with a different id at the moment its upsert runs (a stored
\* row that no earlier record of the batch moved to another url, or a row
\* an earlier record wrote) makes a call that reaches its write phase fail
\* with an integrity error; no row of the batch is applied and the stored
\* rows keep their values.
C21_UrlHeldAtUpsertFails ==
    (WriteEnded /\ \E k \in 1..Len(rows) : UrlHeldByAnotherRow(k)) =>
        /\ RaisedExc("IntegrityError")
        /\ db.rows = {Extended(r, db.cols) : r \in pre.rows}

\* the second record of a batch had a new id and the url its first record
\* had just written, on a table that held a row, and the call failed
C21_Witness ==
    /\ RaisedExc("IntegrityError")
    /\ opened
    /\ Len(rows) = 2
    /\ pre.rows # {}
    /\ UrlHeldByAnotherRow(2)
    /\ rows[1]["url"] = rows[2]["url"]

\* every record of the last batch lacks id, url or title
NoSurvivor == \A k \in 1..Len(items) : Defective(items[k])

\* the summary {inserted 0, updated 0, skipped n, total n}
AllSkipped(n) ==
    [kind |-> "summary", inserted |-> 0, updated |-> 0, skipped |-> n, total |-> n]

\* the call opened no connection and left the database file as it was
StoreUntouched == ~opened /\ conn = "closed" /\ txn = NoTxn /\ db = pre

\* C22 as claimed: when no record of the batch survives normalisation (all
\* records lack id, url or title), the call returns {inserted 0, updated 0,
\* skipped n, total n} without opening a connection: the table is not
\* created, no column is added and no row changes.
C22_NoSurvivorReturnsEarly ==
    (pc = "done" /\ NoSurvivor) =>
        /\ result = AllSkipped(Len(items))
        /\ StoreUntouched

\* C22 amended: when the batch brings each of the nine required columns in
\* at least one record and no record survives normalisation, the call
\* returns {inserted 0, updated 0, skipped n, total n} without opening a
\* connection: the table is not created, no column is added and no row
\* changes.
C22_NoSurvivorWithAllColumnsReturnsEarly ==
    (pc = "done" /\ NoSurvivor /\ AbsentEverywhere = {}) =>
        /\ result = AllSkipped(Len(items))
        /\ StoreUntouched

\* two records, neither survived, on a table with rows that lacks columns
C22_Witness ==
    /\ Returned
    /\ NoSurvivor
    /\ Len(items) = 2
    /\ result.skipped = 2
    /\ LegacyBefore
    /\ pre.rows # {}

\* some id occurs in more than one surviving record
RepeatedId == \E j, k \in 1..Len(rows) : j < k /\ RowId(j) = RowId(k)

\* one row is filed under the id of each surviving record, and it holds the
\* values of the last record of the batch with that id
LastRecordWins ==
    \A k \in 1..Len(rows) :
        /\ Cardinality({r \in db.rows : r["id"] = RowId(k)}) = 1
        /\ LastWithId(k) =>
              \A r \in db.rows :
                  r["id"] = RowId(k) => \A c \in NonKeyCols : r[c] = Affinity(c, rows[k][c])

\* C23 as claimed: when a batch contains several surviving records with
\* the same id, the call succeeds, the table ends with exactly one row for
\* that id, and that row holds the field values of the last such record in
\* batch order.
C23_RepeatedIdSucceeds ==
    (WriteEnded /\ RepeatedId) => (Returned /\ LastRecordWins)

\* the upsert of surviving record k breaks a constraint: its id is no
\* integer, or its url is held by a row with another id when it runs
BreaksConstraint(k) ==
    /\ BeforeUpsert(k).ok
    /\ \/ Tag(RowId(k)) # "int"
       \/ \E r \in BeforeUpsert(k).db.rows : r["url"] = rows[k]["url"] /\ r["id"] # RowId(k)

\* C23 amended: when a batch contains several surviving records with the
\* same id, the repetition does not make the call fail: a call that reaches
\* its write phase fails only if some record has a non-integer id or a url
\* that a row with another id holds when its upsert runs; and when the call
\* succeeds, the table ends with exactly one row for that id, holding the
\* field values of the last such record in batch order.
C23_RepeatedIdLastRecordWins ==
    (WriteEnded /\ RepeatedId) =>
        /\ Returned => LastRecordWins
        /\ ~Returned => \E k \in 1..Len(rows) : BreaksConstraint(k)

\* a successful call whose two records carried the id of a stored row, with
\* different values
C23_Witness ==
    /\ Returned
    /\ opened
    /\ Len(rows) = 2
    /\ RowId(1) = RowId(2)
    /\ RowId(1) \in StoredIds(pre)
    /\ rows[1]["km"] # rows[2]["km"]
    /\ rows[1]["url"] # rows[2]["url"]

\* C24: an upsert that updates an existing row never changes that row's id
\* or its created_at value: after a successful call every row stored before
\* it is still filed under its id, with the created_at it had (or, when the
\* call added the column, the time the backfill gave it), and differs from
\* what it was in the ten non-key data columns and updated_at at most.
C24_UpdateKeepsIdAndCreatedAt ==
    (Returned /\ opened) =>
        \A r0 \in pre.rows :
            \E r \in db.rows :
                /\ r["id"] = r0["id"]
                /\ "created_at" \in pre.cols => r["created_at"] = r0["created_at"]
                /\ "created_at" \notin pre.cols => r["created_at"] \in {TimeV(t) : t \in 0..now}
                /\ \A c \in pre.cols \ (NonKeyCols \cup {"updated_at"}) : r[c] = r0[c]

\* a successful call updated, at a later time, a row that an earlier call
\* had stamped: its values and updated_at changed, its created_at did not
C24_Witness ==
    /\ Returned
    /\ opened
    /\ \E k \in 1..Len(rows), r0 \in pre.rows, r \in db.rows :
          /\ r0["id"] = RowId(k)
          /\ r["id"] = RowId(k)
          /\ "created_at" \in DOMAIN r0
          /\ r0["created_at"] \notin {Null, TimeV(now)}
          /\ r["created_at"] = r0["created_at"]
          /\ r["updated_at"] # r0["updated_at"]
          /\ r["url"] # r0["url"]

\* both callers returned a summary
BothReturned ==
    /\ Returned
    /\ peer.pc = "done"
    /\ peer.result.kind = "summary"

\* the id under which SQLite files the second caller's surviving record k
PeerRowId(k) == Affinity("id", peer.rows[k]["id"])

\* the rows the two calls created
RowsCreated == Cardinality(db.rows) - Cardinality(pre.rows)

\* line 210 counts some record filed under id as inserted
CountsAsInserted(rs, existing, id) ==
    \E k \in 1..Len(rs) : Affinity("id", rs[k]["id"]) = id /\ rs[k]["id"] \notin existing

MyFreshIds == {RowId(k) : k \in 1..Len(rows)} \ StoredIds(pre)

PeerFreshIds == {PeerRowId(k) : k \in 1..Len(peer.rows)} \ StoredIds(pre)

----------------------------------------------------------------------------
(* db_sqlite3_api.py *)

\* a db_* call is running or has ended
ApiCalled == api.pc \in {"execute", "done"}

\* the call ended with ValueError before it opened a connection, and the
\* file is as it was
RefusedUnopened ==
    /\ api.pc = "done"
    /\ api.result = Raised("ValueError", {})
    /\ ~api.opened
    /\ api.conn = "closed"
    /\ db = api.pre

\* db_insert opened its connection and raised
InsertFailed ==
    /\ api.pc = "done"
    /\ api.call.fn = "db_insert"
    /\ api.opened
    /\ api.result.kind = "raised"

\* C26: a db_insert that hits an integrity violation rolls back, closes the
\* connection and raises ValueError, and the table content is the same as
\* before the call; any other failure of the statement or of the commit is
\* rolled back and raised again as it is.
C26_InsertFailureRolledBack ==
    InsertFailed =>
        /\ api.conn = "closed"
        /\ db = api.pre
        /\ api.result.info = {"IntegrityError"} => api.result.exc = "ValueError"
        /\ api.result.info # {"IntegrityError"} => api.result.exc \in api.result.info

\* a plain db_insert of an id or a url that a stored row holds ended with
\* ValueError and the table unchanged
C26_Witness ==
    /\ InsertFailed
    /\ ~api.call.update_on_conflict
    /\ api.pre.rows # {}
    /\ api.result = Raised("ValueError", {"IntegrityError"})
    /\ api.conn = "closed"
    /\ db = api.pre

\* the value matches ^[A-Za-z_][A-Za-z0-9_]*$ as re.match reads it
FitsPattern(v) ==
    /\ Tag(v) = "str"
    /\ LET s    == Chars(v)
           body == IF s # <<>> /\ s[Len(s)] = "\n" THEN SubSeq(s, 1, Len(s) - 1) ELSE s
       IN  /\ body # <<>>
           /\ ~IsDigit(body[1])
           /\ \A i \in 1..Len(body) : body[i] \in Letters \cup {"_"} \/ IsDigit(body[i])

IsList(v) == Tag(v) = "list"

IsDict(v) == Tag(v) = "dict"

\* the column names a call passes for its statement: campos other than the
\* all-columns marker ['*'], campo, pk, the keys of json_valores, and
\* conflict_cols when update_on_conflict is set
ColumnNames(call) ==
    CASE call.fn = "db_read" ->
            IF IsList(call.campos) /\ Entries(call.campos) # <<Star>>
            THEN ColNames(Entries(call.campos)) ELSE {}
      [] call.fn = "db_update" -> {call.campo}
      [] call.fn = "db_delete_pk" -> {call.pk}
      [] call.fn = "db_insert" ->
            (IF IsDict(call.json_valores)
             THEN ColNames(Keys(call.json_valores)) ELSE {})
            \cup (IF call.update_on_conflict /\ IsList(call.conflict_cols)
                  THEN ColNames(Entries(call.conflict_cols)) ELSE {})
      [] OTHER -> {}

IllNamed(call) ==
    ~FitsPattern(call.tabla) \/ \E n \in ColumnNames(call) : ~FitsPattern(n)

\* C27: db_read, db_table_schema, db_update, db_insert, db_delete and
\* db_delete_pk raise ValueError before opening any connection when the
\* table name or any column name does not match ^[A-Za-z_][A-Za-z0-9_]*$,
\* so a statement that reaches the database holds no such name.
C27_IllNamedCallRefused ==
    ApiCalled /\ IllNamed(api.call) => RefusedUnopened

\* a call naming the table well and a column badly was refused while the
\* table held a row
C27_Witness ==
    /\ api.pc = "done"
    /\ FitsPattern(api.call.tabla)
    /\ \E n \in ColumnNames(api.call) : ~FitsPattern(n)
    /\ api.pre.rows # {}
    /\ RefusedUnopened

\* db_insert was called with update_on_conflict=True
UpsertCalled == ApiCalled /\ api.call.fn = "db_insert" /\ api.call.update_on_conflict

\* conflict_cols is missing or empty
NoConflictCols == ~Truthy(api.call.conflict_cols)

\* every supplied column is a conflict column
AllConflictCols ==
    /\ IsDict(api.call.json_valores)
    /\ IsList(api.call.conflict_cols)
    /\ ColNames(Keys(api.call.json_valores)) \subseteq ColNames(Entries(api.call.conflict_cols))

\* the columns of the supplied keys that are not conflict columns
NonConflictColumns ==
    {ColumnOf(api.pre, n) :
        n \in ColNames(Keys(api.call.json_valores)) \ ColNames(Entries(api.call.conflict_cols))}

\* the value the call supplies for column c, as the column stores it
SuppliedFor(c) ==
    LET j == api.call.json_valores
    IN  Affinity(c, Values(j)[CHOOSE i \in 1..Len(Keys(j)) : ColumnOf(api.pre, Keys(j)[i]) = c])

\* the call returned without adding a row: it met a conflict
UpsertUpdated ==
    /\ UpsertCalled
    /\ api.pc = "done"
    /\ api.result.kind = "returned"
    /\ Cardinality(db.rows) = Cardinality(api.pre.rows)

\* C28: db_insert with update_on_conflict=True raises ValueError without
\* touching the database when conflict_cols is missing or empty, or when
\* every supplied column is a conflict column; otherwise, when it meets a
\* conflict, it sets in the stored row exactly the supplied columns that
\* are not conflict columns, and every other column and row stays.
C28_UpsertArgumentsAndUpdate ==
    /\ UpsertCalled /\ (NoConflictCols \/ AllConflictCols) => RefusedUnopened
    /\ UpsertUpdated =>
          \E old \in api.pre.rows :
              db.rows = (api.pre.rows \ {old})
                        \cup {[c \in api.pre.cols |->
                                  IF c \in NonConflictColumns THEN SuppliedFor(c) ELSE old[c]]}

\* the call met a conflict on url, changed the title it supplied and left
\* the id and the other columns of the stored row
C28_Witness ==
    /\ UpsertUpdated
    /\ db # api.pre
    /\ NonConflictColumns = {"title"}
    /\ \E old \in api.pre.rows, new \in db.rows :
          /\ new["title"] # old["title"]
          /\ new["id"] = old["id"]
          /\ new["km"] = old["km"] /\ old["km"] # Null

\* a call with update_on_conflict=True and no conflict_cols was refused
\* while the table held a row
C28_WitnessRefused ==
    /\ UpsertCalled
    /\ NoConflictCols
    /\ api.pre.rows # {}
    /\ RefusedUnopened

====
